---- MODULE Spec2Model ----
(***************************************************************************)
(* bucket2http (src/main.go): an HTTP front end that serves the keys of a  *)
(* flat object store as files and its key prefixes as directory listings.  *)
(*                                                                         *)
(* Strings are sequences of one-character strings, so that TrimPrefix,     *)
(* HasSuffix, path.Dir and path.Base are computed character by character.  *)
(* A DirEntry keeps the fields URL, Name and IsDir; Size, ModTime and Icon *)
(* are presentation fields that no property below reads.                   *)
(***************************************************************************)
EXTENDS Integers, Sequences, FiniteSets, TLC

\* ------------------------------------------------------------------------
\* Strings
\* ------------------------------------------------------------------------

\* The element of a one-element set. Only({F(x) : x \in {e}}) is F(e) with e
\* evaluated once, however often F uses it: where TLC evaluates ENABLED it
\* re-evaluates an operator's argument at every use.
Only(S) == CHOOSE x \in S : TRUE

Slash == <<"/">>
Dot == <<".">>
DotDot == <<".", ".">>

\* Byte order of the characters used ('.' 46 < '/' 47 < 'a' 97 < 'b' 98 < 'c' 99).
Rank(c) == CASE c = "." -> 46 [] c = "/" -> 47 [] c = "a" -> 97
             [] c = "b" -> 98 [] c = "c" -> 99 [] OTHER -> 255

HasPrefix(s, p) == Len(s) >= Len(p) /\ SubSeq(s, 1, Len(p)) = p
HasSuffix(s, p) == Len(s) >= Len(p) /\ SubSeq(s, Len(s) - Len(p) + 1, Len(s)) = p

\* strings.TrimPrefix / strings.TrimSuffix: remove ONE occurrence.
TrimPrefix(s, p) == IF HasPrefix(s, p) THEN SubSeq(s, Len(p) + 1, Len(s)) ELSE s
TrimSuffix(s, p) == IF HasSuffix(s, p) THEN SubSeq(s, 1, Len(s) - Len(p)) ELSE s

\* Index of the first / last "/" of s, 0 when there is none.
FirstSlash(str) ==
    Only({ IF \E i \in 1..Len(s) : s[i] = "/"
           THEN CHOOSE i \in 1..Len(s) : s[i] = "/" /\ \A j \in 1..(i - 1) : s[j] # "/"
           ELSE 0 : s \in {str} })
LastSlash(str) ==
    Only({ IF \E i \in 1..Len(s) : s[i] = "/"
           THEN CHOOSE i \in 1..Len(s) : s[i] = "/" /\ \A j \in (i + 1)..Len(s) : s[j] # "/"
           ELSE 0 : s \in {str} })

\* The "/"-separated elements of s (empty elements included).
RECURSIVE SplitSlash(_)
SplitSlash(str) ==
    Only({ IF i = 0 THEN <<s>>
           ELSE <<SubSeq(s, 1, i - 1)>> \o SplitSlash(SubSeq(s, i + 1, Len(s))) :
           <<s, i>> \in {<<str, FirstSlash(str)>>} })

RECURSIVE JoinSlash(_)
JoinSlash(elems) ==
    IF elems = <<>> THEN <<>>
    ELSE IF Len(elems) = 1 THEN elems[1]
    ELSE elems[1] \o Slash \o JoinSlash(Tail(elems))

\* The element loop of path.Clean: drop "" and ".", let ".." cancel the element
\* before it (or keep it, on a relative path with nothing left to cancel).
RECURSIVE CleanElems(_, _, _)
CleanElems(elems, out, rooted) ==
    IF elems = <<>> THEN out
    ELSE LET e == Head(elems)
             rest == Tail(elems)
         IN  IF e = <<>> \/ e = Dot THEN CleanElems(rest, out, rooted)
             ELSE IF e = DotDot
                  THEN IF out # <<>> /\ out[Len(out)] # DotDot
                       THEN CleanElems(rest, SubSeq(out, 1, Len(out) - 1), rooted)
                       ELSE IF rooted THEN CleanElems(rest, out, rooted)
                       ELSE CleanElems(rest, Append(out, e), rooted)
                  ELSE CleanElems(rest, Append(out, e), rooted)

\* path.Clean: the shortest equivalent path; "." for the empty path.
Clean(path) ==
    Only({ IF p = <<>> THEN Dot
           ELSE Only({ IF p[1] = "/" THEN Slash \o joined
                       ELSE IF joined = <<>> THEN Dot ELSE joined :
                       joined \in {JoinSlash(CleanElems(SplitSlash(p), <<>>,
                                                        p[1] = "/"))} }) :
           p \in {path} })

\* path.Dir: all but the last element, Cleaned ("." when p has no slash).
Dir(path) == Only({ Clean(SubSeq(p, 1, LastSlash(p))) : p \in {path} })

RECURSIVE TrimTrailingSlashes(_)
TrimTrailingSlashes(p) ==
    IF HasSuffix(p, Slash) THEN TrimTrailingSlashes(SubSeq(p, 1, Len(p) - 1)) ELSE p

\* path.Base: the last element; "." for the empty path, "/" for all slashes.
Base(path) ==
    IF path = <<>> THEN Dot
    ELSE Only({ IF LastSlash(q) = Len(q) THEN Slash
                ELSE SubSeq(q, LastSlash(q) + 1, Len(q)) :
                q \in {TrimTrailingSlashes(path)} })

\* Lexicographic (byte) order on strings.
RECURSIVE StrLess(_, _)
StrLess(s, t) ==
    IF t = <<>> THEN FALSE
    ELSE IF s = <<>> THEN TRUE
    ELSE IF s[1] # t[1] THEN Rank(s[1]) < Rank(t[1])
    ELSE StrLess(Tail(s), Tail(t))

\* The strings of a finite set in ascending order.
RECURSIVE SortStrings(_)
SortStrings(strs) ==
    Only({ IF S = {} THEN <<>>
           ELSE Only({ <<m>> \o SortStrings(S \ {m}) :
                       m \in {x \in S : \A y \in S \ {x} : StrLess(x, y)} }) :
           S \in {strs} })

\* ------------------------------------------------------------------------
\* The object store (the bucket behind minioClient)
\* ------------------------------------------------------------------------

\* The keys the bucket may hold: a, a/, a/b, a/b/c.
KeyA == <<"a">>
KeyADir == <<"a", "/">>
KeyAB == <<"a", "/", "b">>
KeyABC == <<"a", "/", "b", "/", "c">>
Keys == {KeyA, KeyADir, KeyAB, KeyABC}

DirectoryType == "application/x-directory"

NoObject == [Exists |-> FALSE, Body |-> <<>>, ContentType |-> ""]
FileOne == [Exists |-> TRUE, Body |-> <<1>>, ContentType |-> "binary/octet-stream"]
FileTwo == [Exists |-> TRUE, Body |-> <<2, 3>>, ContentType |-> "binary/octet-stream"]
DirMarker == [Exists |-> TRUE, Body |-> <<>>, ContentType |-> DirectoryType]
Objects == {FileOne, FileTwo, DirMarker}

Stores == [Keys -> Objects \cup {NoObject}]

Present(st) == {k \in Keys : st[k].Exists}

\* The number of writes other clients make to the bucket while requests run.
MaxMutations == 1

\* The request paths r.URL.Path served.
Paths == { <<>>, <<"/">>, <<"/", "a">>, <<"/", "a", "/">>, <<"/", "/", "a">>,
           <<"/", "a", "/", "b">>, <<"/", "a", "/", "b", "/">>,
           <<"/", "a", "/", "b", "/", "c">>, <<"/", "b">> }

\* minio.ObjectInfo and the error of StatObject. A failed call returns the zero
\* ObjectInfo; Err is "nil", "NoSuchKey" or "Other" (any other store error).
ZeroInfo(err) == [Size |-> 0, ContentType |-> "", Err |-> err]

StatObject(st, key) ==
    IF key \in Keys /\ st[key].Exists
    THEN { [Size |-> Len(st[key].Body), ContentType |-> st[key].ContentType,
            Err |-> "nil"],
           ZeroInfo("Other") }
    ELSE { ZeroInfo("NoSuchKey"), ZeroInfo("Other") }

\* GetObject: an error, or a stream of the object's bytes as they are when the
\* store serves the get. Missing is a stream whose first read fails because the
\* key is gone (the client opens the stream before it asks the store).
GetObject(st, key) ==
    IF key \in Keys /\ st[key].Exists
    THEN { [Err |-> FALSE, Data |-> st[key].Body, Missing |-> FALSE],
           [Err |-> TRUE, Data |-> <<>>, Missing |-> FALSE] }
    ELSE { [Err |-> TRUE, Data |-> <<>>, Missing |-> TRUE],
           [Err |-> FALSE, Data |-> <<>>, Missing |-> TRUE] }

\* One element of the ListObjects channel.
ObjectItem(k) == [Key |-> k, StorageClass |-> "STANDARD", Err |-> FALSE]
PrefixItem(k) == [Key |-> k, StorageClass |-> "", Err |-> FALSE]
ErrItem == [Key |-> <<>>, StorageClass |-> "", Err |-> TRUE]

RECURSIVE MapItems(_, _)
MapItems(keys, isObject) ==
    IF keys = <<>> THEN <<>>
    ELSE <<IF isObject THEN ObjectItem(Head(keys)) ELSE PrefixItem(Head(keys))>>
         \o MapItems(Tail(keys), isObject)

\* ListObjects with Recursive: false (delimiter "/"): the keys under the prefix
\* with no further "/" as objects, then the deeper keys grouped under their
\* common prefix up to and including the next "/".
ListObjects(st, prefix) ==
    LET rest(k) == SubSeq(k, Len(prefix) + 1, Len(k))
        \* -1 for a key not under the prefix, else where the next "/" is
        cut == [k \in Keys |-> IF st[k].Exists /\ HasPrefix(k, prefix)
                               THEN FirstSlash(rest(k)) ELSE -1]
        objs(c) == {k \in Keys : c[k] = 0}
        commons(c) == {prefix \o SubSeq(rest(k), 1, c[k]) : k \in {x \in Keys : c[x] > 0}}
    IN  Only({ MapItems(SortStrings(objs(c)), TRUE)
               \o MapItems(SortStrings(commons(c)), FALSE) : c \in {cut} })

\* ------------------------------------------------------------------------
\* The request handler
\* ------------------------------------------------------------------------

VARIABLES store,    \* the bucket: key -> object
          req,      \* per request: the handler's position, locals and response
          nmut      \* writes made to the bucket by other clients so far

vars == <<store, req, nmut>>

\* The requests in flight, each on its own goroutine.
Requests == {"r1", "r2"}
InFlight == DOMAIN req

\* http.ResponseWriter: the header map, the status (0 until something commits
\* it) and the body written.
EmptyHeader == [h \in {} |-> ""]
EmptyResponse == [header |-> EmptyHeader, status |-> 0, body |-> <<>>]

SetHeader(h, k, v) == [x \in DOMAIN h \cup {k} |-> IF x = k THEN v ELSE h[x]]

NoGet == [Err |-> FALSE, Data |-> <<>>, Missing |-> FALSE]

\* A request as handler() receives it. info, get, prefix, entries are the
\* locals of handleFile and handleDirectory; atStat, atGet, ambig, ch and snap
\* record what the store held when it was asked.
NewRequest(path) ==
    [ path |-> path, pc |-> "stat",
      info |-> ZeroInfo("pending"), atStat |-> NoObject, ambig |-> FALSE,
      get |-> NoGet, atGet |-> NoObject, copyErr |-> FALSE,
      fileRet |-> "none", dirRet |-> "none",
      prefix |-> <<>>, ch |-> <<>>, snap |-> [k \in Keys |-> NoObject],
      entries |-> <<>>,
      hasContent |-> FALSE, renderErr |-> FALSE, cleanAt404 |-> TRUE,
      w |-> EmptyResponse, outcome |-> "none" ]

\* handler: key := strings.TrimPrefix(requestPath, "/")
KeyOf(path) == TrimPrefix(path, Slash)

\* handleDirectory: append "/" when missing, then "/" alone is the root.
NormalizePrefix(key) ==
    LET p == IF ~HasSuffix(key, Slash) THEN key \o Slash ELSE key
    IN  IF p = Slash THEN <<>> ELSE p

\* Mutant: only NoSuchKey is a miss; any other stat error goes on to the fetch.
HandleFileStatOnlyNoSuchKey(info) ==
    IF info.ContentType = DirectoryType THEN FALSE
    ELSE IF info.Err = "NoSuchKey" THEN FALSE
    ELSE TRUE

\* handleFile after StatObject: TRUE to go on to the content fetch, FALSE for
\* `return false` (a directory marker, NoSuchKey, or any other error).
HandleFileStat(info) ==
    IF info.ContentType = DirectoryType THEN FALSE
    ELSE IF info.Err # "nil" THEN FALSE
    ELSE TRUE

ObjectAt(st, key) == IF key \in Keys THEN st[key] ELSE NoObject

\* Whether the prefix key/ lists anything besides itself.
HasChildren(st, key) ==
    \E k \in Present(st) : HasPrefix(k, key \o Slash) /\ k # key \o Slash

\* Mutant: a key that is also a listable prefix is tried as a directory first.
AfterStatDirectoryFirst(q, st, info) ==
    [q EXCEPT !.info = info,
              !.atStat = ObjectAt(st, KeyOf(q.path)),
              !.ambig = HasChildren(st, KeyOf(q.path)),
              !.fileRet = IF HandleFileStat(info) /\ ~HasChildren(st, KeyOf(q.path))
                          THEN "none" ELSE "false",
              !.pc = IF HandleFileStat(info) /\ ~HasChildren(st, KeyOf(q.path))
                     THEN "get" ELSE "list"]

\* handler and handleFile up to the decision on StatObject's answer.
AfterStat(q, st, info) ==
    [q EXCEPT !.info = info,
              !.atStat = ObjectAt(st, KeyOf(q.path)),
              !.ambig = HasChildren(st, KeyOf(q.path)),
              !.fileRet = IF HandleFileStat(info) THEN "none" ELSE "false",
              !.pc = IF HandleFileStat(info) THEN "get" ELSE "list"]

\* Mutant: Content-Length taken from the stream fetched, not from the stat.
HandleFileGetStreamLength(q, res) ==
    IF res.Err
    THEN [q EXCEPT !.get = res, !.fileRet = "false", !.pc = "list"]
    ELSE [q EXCEPT !.get = res, !.pc = "copy",
                   !.w.header = SetHeader(SetHeader(@, "Content-Type", "byExtension"),
                                          "Content-Length", Len(res.Data))]

\* Mutant: the headers are set before GetObject's error is looked at.
HandleFileGetHeadersFirst(q, res) ==
    IF res.Err
    THEN [q EXCEPT !.get = res, !.fileRet = "false", !.pc = "list",
                   !.w.header = SetHeader(SetHeader(@, "Content-Type", "byExtension"),
                                          "Content-Length", q.info.Size)]
    ELSE [q EXCEPT !.get = res, !.pc = "copy",
                   !.w.header = SetHeader(SetHeader(@, "Content-Type", "byExtension"),
                                          "Content-Length", q.info.Size)]

\* handleFile after GetObject: `return false` on an error, else the two headers.
HandleFileGet(q, res) ==
    IF res.Err
    THEN [q EXCEPT !.get = res, !.fileRet = "false", !.pc = "list"]
    ELSE [q EXCEPT !.get = res, !.pc = "copy",
                   !.w.header = SetHeader(SetHeader(@, "Content-Type", "byExtension"),
                                          "Content-Length", q.info.Size)]

\* The byte counts io.Copy may reach: all of the stream, or fewer when a read
\* or a write fails; none when the key was gone at the first read. The
\* ResponseWriter refuses what exceeds the Content-Length it was given.
CopyCounts(q) ==
    IF q.get.Missing THEN {0}
    ELSE {n \in 0..Len(q.get.Data) : n <= q.w.header["Content-Length"]}

\* Mutant: a failed copy makes handleFile `return false`.
HandleFileCopyFailureUnhandled(q, n) ==
    IF q.get.Missing \/ n < Len(q.get.Data)
    THEN [q EXCEPT !.copyErr = TRUE,
                   !.w.body = SubSeq(q.get.Data, 1, n),
                   !.fileRet = "false", !.pc = "list"]
    ELSE [q EXCEPT !.w.body = q.get.Data, !.w.status = 200,
                   !.fileRet = "true", !.outcome = "file", !.pc = "done"]

\* io.Copy, its error logged only, then `return true`; handler returns and the
\* server completes the response with status 200.
HandleFileCopy(q, n) ==
    [q EXCEPT !.copyErr = q.get.Missing \/ n < Len(q.get.Data),
              !.w.body = SubSeq(q.get.Data, 1, n),
              !.w.status = 200,
              !.fileRet = "true", !.outcome = "file", !.pc = "done"]

DirEntry(url, name, isDir) == [URL |-> url, Name |-> name, IsDir |-> isDir]

\* The `..` entry, added for every prefix but the root.
ParentEntries(prefix) ==
    IF prefix # <<>>
    THEN <<DirEntry(Slash \o (Dir(TrimSuffix(prefix, Slash)) \o Slash), DotDot, TRUE)>>
    ELSE <<>>

\* Mutant: an error element ends the loop (`break`) and the listing goes on.
RECURSIVE RangeChBreak(_, _, _, _)
RangeChBreak(ch, entries, hasContent, prefix) ==
    IF ch = <<>> THEN [entries |-> entries, hasContent |-> hasContent, failed |-> FALSE]
    ELSE Only({ IF obj.Err
                THEN [entries |-> entries, hasContent |-> hasContent, failed |-> FALSE]
                ELSE IF obj.Key = prefix
                THEN RangeChBreak(Tail(ch), entries, TRUE, prefix)
                ELSE RangeChBreak(Tail(ch),
                                  Append(entries, DirEntry(Slash \o obj.Key, Base(obj.Key),
                                                           obj.StorageClass = "")),
                                  TRUE, prefix) :
                obj \in {Head(ch)} })

\* Mutant: the prefix's own key is not skipped.
RECURSIVE RangeChNoSkip(_, _, _, _)
RangeChNoSkip(ch, entries, hasContent, prefix) ==
    IF ch = <<>> THEN [entries |-> entries, hasContent |-> hasContent, failed |-> FALSE]
    ELSE Only({ IF obj.Err
                THEN [entries |-> entries, hasContent |-> hasContent, failed |-> TRUE]
                ELSE RangeChNoSkip(Tail(ch),
                                   Append(entries, DirEntry(Slash \o obj.Key, Base(obj.Key),
                                                            obj.StorageClass = "")),
                                   TRUE, prefix) :
                obj \in {Head(ch)} })

\* for obj := range ch: stop with failed on an error element; any other element
\* sets hasContent; the prefix's own key is skipped; an element with no storage
\* class is a directory, any other a file.
RECURSIVE RangeCh(_, _, _, _)
RangeCh(ch, entries, hasContent, prefix) ==
    IF ch = <<>> THEN [entries |-> entries, hasContent |-> hasContent, failed |-> FALSE]
    ELSE Only({ IF obj.Err
                THEN [entries |-> entries, hasContent |-> hasContent, failed |-> TRUE]
                ELSE IF obj.Key = prefix
                THEN RangeCh(Tail(ch), entries, TRUE, prefix)
                ELSE RangeCh(Tail(ch),
                             Append(entries, DirEntry(Slash \o obj.Key, Base(obj.Key),
                                                      obj.StorageClass = "")),
                             TRUE, prefix) :
                obj \in {Head(ch)} })

\* What the channel may deliver for a listing: all of it, or a part of it (none,
\* some, or all of its elements) followed by an error.
ChannelRuns(listing) ==
    UNION { {l} \cup {SubSeq(l, 1, e) \o <<ErrItem>> : e \in 0..Len(l)} :
            l \in {listing} }

\* http.Error(w, "404 Not Found", 404)
NotFound(q) ==
    [q EXCEPT !.cleanAt404 = (q.w = EmptyResponse),
              !.w.header = SetHeader(@, "Content-Type", "text/plain; charset=utf-8"),
              !.w.status = 404,
              !.w.body = <<"404 Not Found">>,
              !.outcome = "notfound", !.pc = "done"]

\* handleDirectory on the channel contents ch, and handler's 404 when it
\* returns false. renderErr: tmpl.Execute failed (logged only).
DirectoryResult(q, st, ch, renderErr, prefix, loop) ==
    LET seen == [q EXCEPT !.prefix = prefix, !.ch = ch, !.snap = st,
                          !.hasContent = loop.hasContent]
    IN  IF loop.failed \/ ~loop.hasContent
        THEN NotFound([seen EXCEPT !.dirRet = "false"])
        ELSE [seen EXCEPT !.dirRet = "true", !.entries = loop.entries,
                          !.renderErr = renderErr,
                          !.w.header = SetHeader(@, "Content-Type",
                                                 "text/html; charset=utf-8"),
                          !.w.status = 200,
                          !.w.body = IF renderErr THEN <<>>
                                     ELSE <<[Path |-> Slash \o prefix,
                                             Entries |-> loop.entries]>>,
                          !.outcome = "listing", !.pc = "done"]

HandleDirectory(q, st, ch, renderErr) ==
    Only({ Only({ DirectoryResult(q, st, ch, renderErr, prefix, loop) :
                  loop \in {RangeCh(ch, ParentEntries(prefix), FALSE, prefix)} }) :
           prefix \in {NormalizePrefix(KeyOf(q.path))} })

\* ------------------------------------------------------------------------
\* Actions
\* ------------------------------------------------------------------------

\* One request, of any path, against any bucket.
Init ==
    /\ store \in Stores
    /\ req \in [{"r1"} -> {NewRequest(p) : p \in Paths}]
    /\ nmut = 0

\* Two requests in flight at once, one for the key a/b and one for the prefix
\* a/b/, against a bucket that holds a/b and may hold a/b/c.
ConcStores == {st \in Stores : /\ st[KeyA] = NoObject
                               /\ st[KeyADir] = NoObject
                               /\ st[KeyAB] = FileTwo
                               /\ st[KeyABC] \in {NoObject, FileOne}}

ConcInit ==
    /\ store \in ConcStores
    /\ req = [r \in Requests |->
                IF r = "r1" THEN NewRequest(Slash \o KeyAB)
                ELSE NewRequest(Slash \o KeyAB \o Slash)]
    /\ nmut = 0

\* handler up to the answer of StatObject.
Stat(r) ==
    /\ r \in InFlight
    /\ req[r].pc = "stat"
    /\ \E info \in StatObject(store, KeyOf(req[r].path)) :
         req' = [req EXCEPT ![r] = AfterStat(req[r], store, info)]
    /\ UNCHANGED <<store, nmut>>

\* handleFile from GetObject to the headers.
Get(r) ==
    /\ r \in InFlight
    /\ req[r].pc = "get"
    /\ \E res \in GetObject(store, KeyOf(req[r].path)) :
         req' = [req EXCEPT ![r] =
                   HandleFileGet([req[r] EXCEPT !.atGet = ObjectAt(store, KeyOf(req[r].path))],
                                 res)]
    /\ UNCHANGED <<store, nmut>>

\* handleFile's io.Copy and return.
Copy(r) ==
    /\ r \in InFlight
    /\ req[r].pc = "copy"
    /\ \E n \in CopyCounts(req[r]) :
         req' = [req EXCEPT ![r] = HandleFileCopy(@, n)]
    /\ UNCHANGED <<store, nmut>>

\* handleDirectory, and handler's 404 after it.
List(r) ==
    /\ r \in InFlight
    /\ req[r].pc = "list"
    /\ \E ch \in ChannelRuns(ListObjects(store, NormalizePrefix(KeyOf(req[r].path)))),
          renderErr \in BOOLEAN :
         \E q \in {HandleDirectory(req[r], store, ch, renderErr)} :
            req' = [req EXCEPT ![r] = q]
    /\ UNCHANGED <<store, nmut>>

\* Another client of the bucket writes or deletes a key.
Put(k, o) ==
    /\ nmut < MaxMutations
    /\ store[k] # o
    /\ store' = [store EXCEPT ![k] = o]
    /\ nmut' = nmut + 1
    /\ UNCHANGED req

Delete(k) ==
    /\ nmut < MaxMutations
    /\ store[k].Exists
    /\ store' = [store EXCEPT ![k] = NoObject]
    /\ nmut' = nmut + 1
    /\ UNCHANGED req

Step(r) == Stat(r) \/ Get(r) \/ Copy(r) \/ List(r)

Next ==
    \/ \E r \in Requests : Step(r)
    \/ \E k \in Keys, o \in Objects : Put(k, o)
    \/ \E k \in Keys : Delete(k)

Spec == Init /\ [][Next]_vars

\* Every store call returns, so a handler that can take its next step takes it.
ConcSpec == ConcInit /\ [][Next]_vars /\ \A r \in Requests : WF_vars(Step(r))

\* ------------------------------------------------------------------------
\* Properties
\* ------------------------------------------------------------------------

Done(q) == q.pc = "done"

\* StatObject succeeded on something that is not a directory marker.
StatOK(q) == q.pc # "stat" /\ q.info.Err = "nil" /\ q.info.ContentType # DirectoryType

HasErr(ch) == \E i \in 1..Len(ch) : ch[i].Err

IsPrefixOf(s, t) == Len(s) <= Len(t) /\ SubSeq(t, 1, Len(s)) = s

\* The immediate children of a prefix among the keys S, said without the
\* listing: prefix + name for a key of S, prefix + name + "/" when some key of S
\* lies at or under it; name is not empty and holds no "/".
Candidates == UNION { {SubSeq(k, 1, n) : n \in 1..Len(k)} : k \in Keys }
IsChild(c, prefix, S) ==
    /\ c # prefix
    /\ HasPrefix(c, prefix)
    /\ LET name == TrimSuffix(SubSeq(c, Len(prefix) + 1, Len(c)), Slash)
       IN  name # <<>> /\ FirstSlash(name) = 0
    /\ IF HasSuffix(c, Slash) THEN \E k \in S : HasPrefix(k, c) ELSE c \in S
Children(S, prefix) == {c \in Candidates : IsChild(c, prefix, S)}

\* The prefix is in the bucket as a directory marker and nothing else is under it.
PlaceholderOnly(q) ==
    /\ q.prefix \in Keys
    /\ q.snap[q.prefix] = DirMarker
    /\ \A k \in Present(q.snap) : HasPrefix(k, q.prefix) => k = q.prefix

\* C1: a non-root prefix under which the store lists only the object whose key
\* is the prefix itself is not handled by handleDirectory, and the request ends
\* with 404: no listing is rendered, not even one holding only `..`.
C1_PlaceholderOnlyIs404 ==
    \A r \in InFlight :
        LET q == req[r]
        IN  (q.dirRet # "none" /\ q.prefix # <<>> /\ PlaceholderOnly(q))
            => (q.dirRet = "false" /\ q.outcome = "notfound" /\ q.w.status = 404)

C3_ListingErrorIs404 ==
    \A r \in InFlight :
        LET q == req[r]
        IN  (q.dirRet # "none" /\ HasErr(q.ch))
            => /\ q.dirRet = "false"
               /\ q.cleanAt404
               /\ q.outcome = "notfound"
               /\ q.w.status = 404
               /\ q.w.body = <<"404 Not Found">>
               /\ q.entries = <<>>

\* An error after two children were received, on a prefix that is not the root.
C3_Witness ==
    \E r \in InFlight :
        LET q == req[r]
        IN  /\ Done(q) /\ q.prefix # <<>> /\ Len(q.ch) = 3 /\ q.ch[3].Err
            /\ q.hasContent /\ q.outcome = "notfound"

\* C4: for a prefix with at least one child, the entries rendered are one per
\* distinct immediate child of the prefix (no duplicate, no grandchild, never
\* the prefix's own key), after exactly one `..` entry when the prefix is not
\* the root and no `..` entry when it is.
C4_ListingIsImmediateChildren ==
    \A r \in InFlight :
        LET q == req[r]
            kids == Children(Present(q.snap), q.prefix)
            n0 == IF q.prefix = <<>> THEN 0 ELSE 1
        IN  (q.outcome = "listing" /\ kids # {})
            => /\ Len(q.entries) = n0 + Cardinality(kids)
               /\ {q.entries[i].URL : i \in (n0 + 1)..Len(q.entries)}
                    = {Slash \o c : c \in kids}
               /\ n0 = 1 => (q.entries[1].Name = DotDot /\ q.entries[1].IsDir)
               /\ \A i \in (n0 + 1)..Len(q.entries) :
                     /\ q.entries[i].Name # DotDot
                     /\ q.entries[i].URL # Slash \o q.prefix
                     /\ q.entries[i].IsDir = HasSuffix(q.entries[i].URL, Slash)

\* The listing of a/ in a bucket holding a/ itself, a/b and a/b/c.
C4_Witness ==
    \E r \in InFlight :
        LET q == req[r]
        IN  /\ q.outcome = "listing" /\ q.prefix = KeyADir
            /\ {KeyADir, KeyAB, KeyABC} \subseteq Present(q.snap)
            /\ Len(q.entries) = 3

\* C5 as stated: a file response carries Content-Length equal to the stat'd size
\* and a body equal to the object's exact bytes, so that the announced length
\* and the number of bytes delivered agree, also when the object is replaced
\* between the stat and the get. Read to the claim's advantage: only of copies
\* that did not fail, and with the bytes the store held at the get.
C5_LengthAndBodyAgree ==
    \A r \in InFlight :
        LET q == req[r]
        IN  (q.outcome = "file" /\ ~q.copyErr)
            => /\ q.w.header["Content-Length"] = q.info.Size
               /\ q.w.body = q.atGet.Body
               /\ Len(q.w.body) = q.w.header["Content-Length"]

\* C5 as amended: a file response carries Content-Length equal to the size the
\* store reported at stat time, and its body is a leading part of the bytes the
\* store returned for the get; the body is the object's exact bytes, and as
\* long as announced, when the copy did not fail and the object was not
\* replaced or deleted between the stat and the get.
C5_LengthFromStatBodyFromGet ==
    \A r \in InFlight :
        LET q == req[r]
        IN  q.outcome = "file"
            => /\ q.w.header["Content-Length"] = q.info.Size
               /\ q.info.Size = Len(q.atStat.Body)
               /\ IsPrefixOf(q.w.body, q.get.Data)
               /\ Len(q.w.body) <= q.w.header["Content-Length"]
               /\ q.get.Data = q.atGet.Body
               /\ (~q.copyErr /\ q.atGet = q.atStat)
                    => (q.w.body = q.atStat.Body
                        /\ Len(q.w.body) = q.w.header["Content-Length"])

\* C5: a two-byte object, unchanged between stat and get, delivered whole.
C5_Witness ==
    \E r \in InFlight :
        LET q == req[r]
        IN  /\ q.outcome = "file" /\ ~q.copyErr /\ q.atGet = q.atStat
            /\ q.w.body = <<2, 3>> /\ q.w.header["Content-Length"] = 2

C7_StatFailureFallsThrough ==
    \A r \in InFlight :
        LET q == req[r]
        IN  q.info.Err \in {"NoSuchKey", "Other"}
            => /\ q.fileRet = "false"
               /\ q.get = NoGet
               /\ q.pc \in {"list", "done"}
               /\ q.pc = "list" => (q.w = EmptyResponse /\ q.dirRet = "none")
               /\ Done(q) => /\ q.dirRet # "none"
                             /\ q.outcome \in {"listing", "notfound"}
                             /\ q.w.status = IF q.outcome = "listing" THEN 200 ELSE 404
                             /\ q.w = HandleDirectory(NewRequest(q.path), store,
                                                      q.ch, q.renderErr).w

\* A transient stat error on a key that exists, answered with a listing.
C7_Witness ==
    \E r \in InFlight :
        LET q == req[r]
        IN  /\ Done(q) /\ q.info.Err = "Other" /\ q.atStat.Exists
            /\ q.atStat.ContentType # DirectoryType
            /\ q.outcome = "listing"

\* The parent prefix as the claim has it: the prefix without its last element;
\* the root (the empty prefix) for a top-level directory.
ParentPrefix(prefix) ==
    Only({ SubSeq(t, 1, LastSlash(t)) : t \in {TrimSuffix(prefix, Slash)} })

\* C8: for every prefix but the root, the first entry is `..` and its URL is
\* "/" followed by the parent prefix: "/" for a top-level directory such as
\* a/, "/a/" for a/b/.
C8_ParentEntryURL ==
    \A r \in InFlight :
        LET q == req[r]
        IN  (q.outcome = "listing" /\ q.prefix # <<>>)
            => /\ q.entries[1].Name = DotDot
               /\ q.entries[1].URL = Slash \o ParentPrefix(q.prefix)

\* C9: the prefix handleDirectory lists is the empty string, or it ends with
\* "/" and does not begin with "/", whatever the request path.
C9_PrefixShape ==
    \A r \in InFlight :
        LET q == req[r]
        IN  q.dirRet # "none"
            => \/ q.prefix = <<>>
               \/ (HasSuffix(q.prefix, Slash) /\ ~HasPrefix(q.prefix, Slash))

\* The key was gone when the store served the get that followed a good stat.
DeletedAfterStat(q) == StatOK(q) /\ q.pc # "get" /\ ~q.atGet.Exists

\* What holds of every request at every moment: one outcome, set when the
\* handler is done and matching what was written; a 404 only on a response
\* nothing was written to.
OneOutcome(q) ==
    /\ Done(q) <=> q.outcome # "none"
    /\ q.outcome = "file" <=> q.fileRet = "true"
    /\ q.outcome = "listing" <=> q.dirRet = "true"
    /\ q.outcome = "notfound" <=> q.w.status = 404
    /\ q.fileRet = "true" => (q.dirRet = "none" /\ q.w.status = 200)
    /\ q.dirRet = "true" => (q.fileRet = "false" /\ q.w.status = 200
                             /\ "Content-Length" \notin DOMAIN q.w.header)
    /\ q.w.status = 404 => (q.fileRet = "false" /\ q.dirRet = "false" /\ q.cleanAt404)

====
